---- MODULE Spec2Model ----
(***************************************************************************)
(* Token-bucket rate limiter (package ratelimiter, src/ratelimiter.go).    *)
(*                                                                         *)
(* Time is counted in clock ticks (the nanoseconds of time.Time and        *)
(* time.Duration).  The float64 token balance is kept as an integer number *)
(* of token units, two units to a token, and a Rate is the number of token *)
(* units generated per tick, so that a rate r stands for r / 2 tokens per  *)
(* tick.  Products and differences are exact; the one inexact step of the  *)
(* code, the conversion float64 -> time.Duration in durationFromTokens,    *)
(* truncates toward zero here as it does in Go.  Floating-point rounding   *)
(* of the products themselves is not modelled.                             *)
(***************************************************************************)
EXTENDS Integers, Sequences, FiniteSets, TLC

\* ---------------------------------------------------------------- bounds
\* The clock's instants range over 0..MaxTime.
MaxTime == 2
\* Burst sizes range over 0..MaxBurst; requests over 0..MaxBurst+1.
MaxBurst == 2
\* A reservation is not explored once it would leave a debt of more than
\* MaxDebt token units.
MaxDebt == 2

\* ------------------------------------------------------------- constants
\* Rate(math.MaxFloat64): a rate larger than every finite rate of the model.
InfiniteRate == 1000
\* time.Duration(math.MaxInt64): longer than every finite duration of the
\* model.
InfiniteDuration == 1000000

Bursts == 0..MaxBurst
Ns == 0..(MaxBurst + 1)
\* Finite rates in token units per tick: a slow one, half a token per tick
\* (1/R is two ticks), and a fast one, a token and a half per tick.
FiniteRates == {1, 3}
Rates == FiniteRates \cup {InfiniteRate}
MaxWaits == {0, InfiniteDuration}

\* float64(n) for an integer token count n, in token units.
Tok(n) == 2 * n

\* float64 -> int64 conversion: truncation toward zero of a / b, b > 0.
TruncDiv(a, b) == IF a >= 0 THEN a \div b ELSE -((-a) \div b)

Min(a, b) == IF a <= b THEN a ELSE b

VARIABLES
    rate,       \* rl.rate
    maxTokens,  \* rl.maxTokens
    tokens,     \* rl.tokens, in token units
    updatedAt,  \* rl.updatedAt
    eventAt,    \* rl.eventAt
    now,        \* the clock's current instant
    res,        \* the reservation the caller holds, or NoRes
    ret,        \* the last call: its name, argument and result
    fresh,      \* Allow() calls made on the limiter as constructed while
                \* nothing else has happened; -1 once anything else has
    drain,      \* the instant at which AllowN calls left the balance at
                \* zero and the tokens AllowN has granted since, while only
                \* the clock and AllowN have acted; NoDrain otherwise
    lastRead    \* the value of the last AvailableTokens() read, while no
                \* call has taken tokens since, and whether every call since
                \* was a clock advance, a SetRateAt at or after the clock's
                \* instant or a SetBurstAt that did not lower the burst;
                \* rose: the read came after such calls only and returned
                \* more than the read before it
VARIABLES
    mu,         \* rl.mu: the caller that holds the lock, 0 when it is free
    pc,         \* where each concurrent caller stands in its call
    loc,        \* each concurrent caller's locals: the instant t it read
                \* from the clock, its argument n, and the instant its
                \* Sleep ends
    grantedNow  \* tokens granted under a finite rate, since the clock last
                \* moved, to concurrent AllowN calls that read the clock
                \* since it last moved

ledger == <<tokens, updatedAt, eventAt>>
config == <<rate, maxTokens>>
observed == <<ret, fresh, drain, lastRead>>
conc == <<mu, pc, loc, grantedNow>>
vars == <<rate, maxTokens, tokens, updatedAt, eventAt, now, res, observed, conc>>

\* The concurrent callers (goroutines) of one limiter.
Callers == {1, 2}
NoLoc == [t |-> 0, n |-> 0, wake |-> 0]

\* The timestamps a caller can hold: readings of the clock taken at or
\* before the present instant.
Stamps == 0..now

NoRes == [ok |-> FALSE, tokens |-> 0, timeToAct |-> 0, rate |-> 0, held |-> FALSE]

\* ------------------------------------------------------- pure functions

durationFromTokens(r, tok) ==
    IF r <= 0 THEN InfiniteDuration
    ELSE LET d == TruncDiv(tok, r)
         IN IF d > InfiniteDuration THEN InfiniteDuration ELSE d

tokensFromDuration(r, d) ==
    IF r <= 0 THEN 0 ELSE d * r

\* The balance projected at t: read-only.
updateTokens(t) ==
    LET t1 == IF t < updatedAt THEN updatedAt ELSE t
        delta == tokensFromDuration(rate, t1 - updatedAt)
        tok == tokens + delta
    IN IF tok > Tok(maxTokens) THEN Tok(maxTokens) ELSE tok

\* AvailableTokens(): the projection at the clock's instant.
AvailableTokens == updateTokens(now)

\* reserve's wait for n tokens at t.
reserveWait(t, n) ==
    LET tok == updateTokens(t) - Tok(n)
    IN IF tok < 0 THEN durationFromTokens(rate, -tok) ELSE 0

\* A faulty admission test: the comparison of n with the burst is left out.
reserveOkAnySize(t, n, maxWait) ==
    reserveWait(t, n) <= maxWait

\* reserve's admission test.
reserveOk(t, n, maxWait) ==
    n <= maxTokens /\ reserveWait(t, n) <= maxWait

\* A faulty reserve: the unlimited rate is not told apart.
reservationFiniteOnly(t, n, maxWait) ==
    LET ok == n <= maxTokens /\ reserveWait(t, n) <= maxWait
    IN [ok |-> ok, tokens |-> n,
        timeToAct |-> IF ok THEN t + reserveWait(t, n) ELSE 0,
        rate |-> rate, held |-> TRUE]

\* The reservation reserve(t, n, maxWait) returns.  The unlimited branch
\* leaves the rate field at its zero value; a refused reservation leaves
\* timeToAct at its zero value, which no caller reads.
reservation(t, n, maxWait) ==
    IF rate = InfiniteRate
    THEN [ok |-> TRUE, tokens |-> n, timeToAct |-> t, rate |-> 0, held |-> TRUE]
    ELSE LET ok == reserveOk(t, n, maxWait)
         IN [ok |-> ok, tokens |-> n,
             timeToAct |-> IF ok THEN t + reserveWait(t, n) ELSE 0,
             rate |-> rate, held |-> TRUE]

\* A faulty reserve: the ledger is committed whether or not the reservation
\* is granted.
reserveLedgerAlways(t, n, maxWait) ==
    IF rate # InfiniteRate
    THEN <<updateTokens(t) - Tok(n), t, t + reserveWait(t, n)>>
    ELSE ledger

\* The ledger <<tokens, updatedAt, eventAt>> reserve(t, n, maxWait) leaves.
reserveLedger(t, n, maxWait) ==
    IF rate # InfiniteRate /\ reserveOk(t, n, maxWait)
    THEN <<updateTokens(t) - Tok(n), t, t + reserveWait(t, n)>>
    ELSE ledger

\* reserve(t, n, maxWait) as a step on the limiter.
reserve(t, n, maxWait) ==
    /\ tokens' = reserveLedger(t, n, maxWait)[1]
    /\ updatedAt' = reserveLedger(t, n, maxWait)[2]
    /\ eventAt' = reserveLedger(t, n, maxWait)[3]
    /\ UNCHANGED config

\* The debt bound of the exploration.
WithinDebt(t, n) == updateTokens(t) - Tok(n) >= -MaxDebt

\* reservation.DelayFrom(t).
DelayFrom(r, t) ==
    IF ~r.ok THEN InfiniteDuration
    ELSE LET delay == r.timeToAct - t
         IN IF delay < 0 THEN 0 ELSE delay

\* A faulty cancellation: nothing is given back.
restoreNothing(r) == 0

\* The amount reservation.CancelAt gives back.
restoreOf(r) ==
    Tok(r.tokens) - tokensFromDuration(r.rate, eventAt - r.timeToAct)

\* A faulty cancellation: the limiter's unlimited rate is not looked at.
cancelLedgerAnyRate(r, t) ==
    IF ~r.ok THEN ledger
    ELSE IF r.tokens = 0 \/ r.timeToAct < t THEN ledger
    ELSE IF Tok(r.tokens) - tokensFromDuration(r.rate, eventAt - r.timeToAct) <= 0
         THEN ledger
    ELSE LET restore == Tok(r.tokens)
                          - tokensFromDuration(r.rate, eventAt - r.timeToAct)
             tok == Min(updateTokens(t) + restore, Tok(maxTokens))
             prev == r.timeToAct + durationFromTokens(r.rate, -Tok(r.tokens))
         IN <<tok, t,
              IF r.timeToAct = eventAt /\ prev >= t THEN prev ELSE eventAt>>

\* The ledger <<tokens, updatedAt, eventAt>> r.CancelAt(t) leaves.
cancelLedger(r, t) ==
    IF ~r.ok THEN ledger
    ELSE IF rate = InfiniteRate \/ r.tokens = 0 \/ r.timeToAct < t THEN ledger
    ELSE IF restoreOf(r) <= 0 THEN ledger
    ELSE LET tok == Min(updateTokens(t) + restoreOf(r), Tok(maxTokens))
             prev == r.timeToAct + durationFromTokens(r.rate, -Tok(r.tokens))
         IN <<tok, t,
              IF r.timeToAct = eventAt /\ prev >= t THEN prev ELSE eventAt>>

\* A faulty SetRateAt: the tokens accrued up to t are not folded into the
\* balance.
setRateFieldsNoFold(t, newRate) == <<tokens, newRate, t>>

\* A faulty SetRateAt: updatedAt is not moved to t.
setRateFieldsKeepStamp(t, newRate) == <<updateTokens(t), newRate, updatedAt>>

\* The fields SetRateAt(t, newRate) leaves: <<tokens, rate, updatedAt>>.
setRateFields(t, newRate) == <<updateTokens(t), newRate, t>>

\* The balance SetBurstAt(t, newBurst) stores: the projection at t taken
\* after rl.maxTokens has been overwritten.
setBurstTokens(t, newBurst) ==
    LET t1 == IF t < updatedAt THEN updatedAt ELSE t
        tok == tokens + tokensFromDuration(rate, t1 - updatedAt)
    IN IF tok > Tok(newBurst) THEN Tok(newBurst) ELSE tok

\* A faulty check in Wait: off by one.
waitExceedsByTwo(n, burst, rt) == n > burst + 1 /\ rt # InfiniteRate

\* Wait's check of n against the snapshot of burst and rate.
waitExceeds(n, burst, rt) == n > burst /\ rt # InfiniteRate

\* ----------------------------------------------------------------- state

NoDrain == [at |-> -1, got |-> 0]
NoRead == [v |-> 0, steady |-> FALSE, read |-> FALSE, rose |-> FALSE]

\* The record of a call: its name, its token count, its result (AllowN's
\* boolean, Wait's error), whether it called the clock's Sleep, and the
\* number it returned.  For reserve, val is the balance projected at t
\* before the call; for CancelAt, ok says that the call came right after
\* the reservation was granted, with the instant of that call as t.
Call(op, n, ok, err, slept, val) ==
    [op |-> op, n |-> n, ok |-> ok, err |-> err, slept |-> slept, val |-> val]

Did(op) == ret' = Call(op, 0, TRUE, "nil", FALSE, 0)

\* The last read after a call that takes tokens, and after a
\* reconfiguration that is steady or not.
ReadTaken == lastRead' = NoRead
ReadKept(steady) ==
    lastRead' = IF lastRead.read /\ ~steady
                THEN [lastRead EXCEPT !.steady = FALSE] ELSE lastRead

\* New(rate, burst, clk) with the clock at instant 0.
Init ==
    /\ rate \in Rates
    /\ maxTokens \in Bursts
    /\ tokens = Tok(maxTokens)
    /\ now = 0
    /\ updatedAt = now
    /\ eventAt = now
    /\ res = NoRes
    /\ ret = Call("New", 0, TRUE, "nil", FALSE, 0)
    /\ fresh = 0
    /\ drain = NoDrain
    /\ lastRead = NoRead
    /\ mu = 0
    /\ pc = [p \in Callers |-> "idle"]
    /\ loc = [p \in Callers |-> NoLoc]
    /\ grantedNow = 0

\* The clock moves on by one tick (fakeClock.Sleep called by the client, or
\* real time passing).
Advance ==
    /\ now < MaxTime
    /\ now' = now + 1
    /\ Did("Sleep")
    /\ fresh' = -1
    /\ drain' = IF drain # NoDrain /\ drain.got > 0
                THEN IF tokens = 0 THEN [at |-> updatedAt, got |-> 0] ELSE NoDrain
                ELSE drain
    /\ UNCHANGED <<config, ledger, res, lastRead, conc>>

\* What an AllowN(n) call does to the record of the drain.
drainAfterAllowN(n) ==
    IF rate = InfiniteRate THEN NoDrain
    ELSE IF ~reservation(now, n, 0).ok THEN drain
    ELSE IF drain # NoDrain THEN [drain EXCEPT !.got = @ + n]
    ELSE IF reserveLedger(now, n, 0)[1] = 0 THEN [at |-> now, got |-> 0]
    ELSE NoDrain

\* AllowN(n): reserve(clock.Now(), n, 0).ok.
AllowN(n) ==
    /\ reserve(now, n, 0)
    /\ ret' = Call("AllowN", n, reservation(now, n, 0).ok, "nil", FALSE, 0)
    /\ fresh' = -1
    /\ drain' = drainAfterAllowN(n)
    /\ ReadTaken
    /\ UNCHANGED <<now, res, conc>>

\* Allow(): AllowN(1).
Allow ==
    /\ reserve(now, 1, 0)
    /\ ret' = Call("AllowN", 1, reservation(now, 1, 0).ok, "nil", FALSE, 0)
    /\ fresh' = IF fresh >= 0 /\ fresh <= MaxBurst THEN fresh + 1 ELSE -1
    /\ drain' = drainAfterAllowN(1)
    /\ ReadTaken
    /\ UNCHANGED <<now, res, conc>>

\* Wait(n), run by a single caller: the snapshot, the check, the
\* reservation and the clock's Sleep, which moves the clock on by the delay
\* (fakeClock.Sleep).
Wait(n) ==
    LET t == now
        r == reservation(t, n, InfiniteDuration)
        delay == DelayFrom(r, t)
    IN /\ IF waitExceeds(n, maxTokens, rate)
          THEN /\ ret' = Call("Wait", n, FALSE, "exceeds burst", FALSE, 0)
               /\ UNCHANGED <<config, ledger, now>>
          ELSE /\ WithinDebt(t, n)
               /\ reserve(t, n, InfiniteDuration)
               /\ IF ~r.ok
                  THEN /\ ret' = Call("Wait", n, FALSE, "cannot reserve", FALSE, 0)
                       /\ now' = now
                  ELSE /\ now + delay <= MaxTime
                       /\ ret' = Call("Wait", n, TRUE, "nil", delay > 0, 0)
                       /\ now' = IF delay > 0 THEN now + delay ELSE now
       /\ fresh' = -1
       /\ drain' = NoDrain
       /\ ReadTaken
       /\ UNCHANGED <<res, conc>>

\* SetRateAt(t, newRate).
SetRateAt(t, newRate) ==
    /\ tokens' = setRateFields(t, newRate)[1]
    /\ rate' = setRateFields(t, newRate)[2]
    /\ updatedAt' = setRateFields(t, newRate)[3]
    /\ Did("SetRateAt")
    /\ fresh' = -1
    /\ drain' = NoDrain
    /\ ReadKept(t >= now)
    /\ UNCHANGED <<maxTokens, eventAt, now, res, conc>>

\* SetRate(newRate): SetRateAt(clock.Now(), newRate).
SetRate(newRate) == SetRateAt(now, newRate)

\* SetBurstAt(t, newBurst).
SetBurstAt(t, newBurst) ==
    /\ maxTokens' = newBurst
    /\ tokens' = setBurstTokens(t, newBurst)
    /\ updatedAt' = t
    /\ eventAt' = t
    /\ Did("SetBurstAt")
    /\ fresh' = -1
    /\ drain' = NoDrain
    /\ ReadKept(newBurst >= maxTokens)
    /\ UNCHANGED <<rate, now, res, conc>>

\* SetBurst(newBurst): SetBurstAt(clock.Now(), newBurst).
SetBurst(newBurst) == SetBurstAt(now, newBurst)

\* A caller inside the package takes a reservation and keeps it:
\* r := rl.reserve(clock.Now(), n, maxWait).
Reserve(n, maxWait) ==
    /\ WithinDebt(now, n)
    /\ reserve(now, n, maxWait)
    /\ res' = reservation(now, n, maxWait)
    /\ ret' = Call("reserve", n, reservation(now, n, maxWait).ok, "nil", FALSE,
                    updateTokens(now))
    /\ fresh' = -1
    /\ drain' = NoDrain
    /\ ReadTaken
    /\ UNCHANGED <<now, conc>>

\* r.CancelAt(t) on the reservation held.
CancelAt(t) ==
    /\ res.held
    /\ tokens' = cancelLedger(res, t)[1]
    /\ updatedAt' = cancelLedger(res, t)[2]
    /\ eventAt' = cancelLedger(res, t)[3]
    /\ ret' = Call("CancelAt", 0, ret.op = "reserve" /\ ret.ok /\ t = now,
                    "nil", FALSE, 0)
    /\ fresh' = -1
    /\ drain' = NoDrain
    /\ ReadKept(FALSE)
    /\ UNCHANGED <<config, now, res, conc>>

\* r.Cancel(): r.CancelAt(clock.Now()).
Cancel == CancelAt(now)

\* AvailableTokens() read by the client.
ReadTokens ==
    /\ ret' = Call("AvailableTokens", 0, TRUE, "nil", FALSE, AvailableTokens)
    /\ lastRead' = [v |-> AvailableTokens, steady |-> TRUE, read |-> TRUE,
                     rose |-> lastRead.read /\ lastRead.steady
                              /\ AvailableTokens > lastRead.v]
    /\ fresh' = -1
    /\ UNCHANGED <<config, ledger, now, res, drain, conc>>

\* The exported API driven by a single caller.
Next ==
    \/ Advance
    \/ Allow
    \/ \E n \in Ns : AllowN(n)
    \/ \E n \in Ns : Wait(n)
    \/ \E r \in Rates : SetRate(r)
    \/ \E t \in Stamps, r \in Rates : SetRateAt(t, r)
    \/ \E b \in Bursts : SetBurst(b)
    \/ \E t \in Stamps, b \in Bursts : SetBurstAt(t, b)
    \/ ReadTokens

Spec == Init /\ [][Next]_vars

\* The reservation protocol: reservations taken, kept and cancelled, with
\* Allow and reconfiguration in between.
NextRes ==
    \/ Advance
    \/ Allow
    \/ \E r \in Rates : SetRate(r)
    \/ \E b \in Bursts : SetBurst(b)
    \/ \E n \in Bursts, w \in MaxWaits : Reserve(n, w)
    \/ Cancel
    \/ \E t \in Stamps : CancelAt(t)

SpecRes == Init /\ [][NextRes]_vars

\* ------------------------------------------------------ concurrent callers

\* rl.mu.Lock() by caller p: it waits until the lock is free.
Lock(p) == mu = 0 /\ mu' = p

\* A faulty Unlock: the lock stays with the caller.
UnlockKept(p) == mu' = mu

\* rl.mu.Unlock() by caller p.
Unlock(p) == mu' = 0

\* The pc values at which a caller reads or writes the limiter's fields.
BodyPcs == {"a_body", "w_snap", "w_rbody", "b_body"}

\* Caller p moves on to pc value to, with locals l.
Goto(p, to, l) ==
    /\ pc' = [pc EXCEPT ![p] = to]
    /\ loc' = [loc EXCEPT ![p] = l]

\* Caller p returns from its call.
Return(p) == Goto(p, "idle", NoLoc)

\* Real time moves on by one tick.
Tick ==
    /\ now < MaxTime
    /\ now' = now + 1
    /\ grantedNow' = 0
    /\ UNCHANGED <<config, ledger, res, observed, mu, pc, loc>>

\* AllowN(n) by caller p, up to the call of reserve: the clock is read
\* before the lock is asked for.
AllowNCall(p, n) ==
    /\ pc[p] = "idle"
    /\ Goto(p, "a_lock", [t |-> now, n |-> n, wake |-> 0])
    /\ UNCHANGED <<config, ledger, now, res, observed, mu, grantedNow>>

\* reserve's rl.mu.Lock() in AllowN.
AllowNLock(p) ==
    /\ pc[p] = "a_lock"
    /\ Lock(p)
    /\ Goto(p, "a_body", loc[p])
    /\ UNCHANGED <<config, ledger, now, res, observed, grantedNow>>

\* reserve(t, n, 0) under the lock, the deferred Unlock, and AllowN's
\* return of reservation.ok.
AllowNBody(p) ==
    /\ pc[p] = "a_body"
    /\ reserve(loc[p].t, loc[p].n, 0)
    /\ Unlock(p)
    /\ grantedNow' = IF rate # InfiniteRate /\ loc[p].t = now
                        /\ reservation(loc[p].t, loc[p].n, 0).ok
                     THEN grantedNow + loc[p].n ELSE grantedNow
    /\ Return(p)
    /\ UNCHANGED <<now, res, observed>>

\* Wait(n) by caller p: t := rl.clock.Now().
WaitCall(p, n) ==
    /\ pc[p] = "idle"
    /\ Goto(p, "w_lock", [t |-> now, n |-> n, wake |-> 0])
    /\ UNCHANGED <<config, ledger, now, res, observed, mu, grantedNow>>

\* Wait's rl.mu.Lock() before the snapshot.
WaitLock(p) ==
    /\ pc[p] = "w_lock"
    /\ Lock(p)
    /\ Goto(p, "w_snap", loc[p])
    /\ UNCHANGED <<config, ledger, now, res, observed, grantedNow>>

\* Wait's snapshot of burst and rate under the lock, the Unlock, and the
\* check of n against the snapshot.
WaitSnap(p) ==
    /\ pc[p] = "w_snap"
    /\ Unlock(p)
    /\ IF waitExceeds(loc[p].n, maxTokens, rate)
       THEN Return(p)  \* the "exceeds burst" error
       ELSE Goto(p, "w_rlock", loc[p])
    /\ UNCHANGED <<config, ledger, now, res, observed, grantedNow>>

\* reserve's rl.mu.Lock() in Wait.
WaitRLock(p) ==
    /\ pc[p] = "w_rlock"
    /\ Lock(p)
    /\ Goto(p, "w_rbody", loc[p])
    /\ UNCHANGED <<config, ledger, now, res, observed, grantedNow>>

\* reserve(t, n, InfiniteDuration) under the lock, the deferred Unlock, and
\* the rest of Wait up to the call of Sleep.
WaitRBody(p) ==
    LET r == reservation(loc[p].t, loc[p].n, InfiniteDuration)
        delay == DelayFrom(r, loc[p].t)
    IN /\ pc[p] = "w_rbody"
       /\ WithinDebt(loc[p].t, loc[p].n)
       /\ reserve(loc[p].t, loc[p].n, InfiniteDuration)
       /\ Unlock(p)
       /\ IF ~r.ok
          THEN Return(p)  \* the "cannot reserve" error
          ELSE IF delay > 0
          THEN /\ now + delay <= MaxTime
               /\ Goto(p, "sleeping", [loc[p] EXCEPT !.wake = now + delay])
          ELSE Return(p)  \* nil, without a Sleep
       /\ UNCHANGED <<now, res, observed, grantedNow>>

\* The clock's Sleep(delay) ends and Wait returns nil.
WaitWake(p) ==
    /\ pc[p] = "sleeping"
    /\ now >= loc[p].wake
    /\ Return(p)
    /\ UNCHANGED <<config, ledger, now, res, observed, mu, grantedNow>>

\* SetBurst(newBurst) by caller p, up to the call of SetBurstAt: the clock
\* is read before the lock is asked for.
SetBurstCall(p, newBurst) ==
    /\ pc[p] = "idle"
    /\ Goto(p, "b_lock", [t |-> now, n |-> newBurst, wake |-> 0])
    /\ UNCHANGED <<config, ledger, now, res, observed, mu, grantedNow>>

\* SetBurstAt's rl.mu.Lock().
SetBurstLock(p) ==
    /\ pc[p] = "b_lock"
    /\ Lock(p)
    /\ Goto(p, "b_body", loc[p])
    /\ UNCHANGED <<config, ledger, now, res, observed, grantedNow>>

\* SetBurstAt(t, newBurst) under the lock and the deferred Unlock.
SetBurstBody(p) ==
    /\ pc[p] = "b_body"
    /\ maxTokens' = loc[p].n
    /\ tokens' = setBurstTokens(loc[p].t, loc[p].n)
    /\ updatedAt' = loc[p].t
    /\ eventAt' = loc[p].t
    /\ Unlock(p)
    /\ Return(p)
    /\ UNCHANGED <<rate, now, res, observed, grantedNow>>

\* Concurrent AllowN calls under a constant rate and burst.
NextAllow ==
    \/ Tick
    \/ \E p \in Callers, n \in Ns : AllowNCall(p, n)
    \/ \E p \in Callers : AllowNLock(p)
    \/ \E p \in Callers : AllowNBody(p)

SpecAllow == Init /\ [][NextAllow]_vars

\* Concurrent Wait and SetBurst calls.
NextWait ==
    \/ Tick
    \/ \E p \in Callers, n \in Ns : WaitCall(p, n)
    \/ \E p \in Callers : WaitLock(p)
    \/ \E p \in Callers : WaitSnap(p)
    \/ \E p \in Callers : WaitRLock(p)
    \/ \E p \in Callers : WaitRBody(p)
    \/ \E p \in Callers : WaitWake(p)
    \/ \E p \in Callers, b \in Bursts : SetBurstCall(p, b)
    \/ \E p \in Callers : SetBurstLock(p)
    \/ \E p \in Callers : SetBurstBody(p)

SpecWait == Init /\ [][NextWait]_vars

\* ------------------------------------------------------------ properties

\* C1 (as stated): on a limiter as constructed, with a finite rate and the
\* clock held, the k-th Allow() returns true iff k <= burst, for every k up
\* to burst + 1.
C1_FirstBurstAllowsOnly ==
    (fresh >= 1 /\ fresh <= maxTokens + 1 /\ rate # InfiniteRate)
        => (ret.ok <=> fresh <= maxTokens)

\* C2 (as stated): once AllowN calls have left the balance at zero and the
\* clock has moved on by k/R since, for a whole number k >= 1 of tokens, an
\* AllowN(n) is granted iff n and the tokens granted since the drain make up
\* at most min(k, burst).
C2_RefillAfterDrain ==
    [][\A n \in Ns :
         (/\ drain # NoDrain
          /\ rate # InfiniteRate
          /\ now > drain.at
          /\ ((now - drain.at) * rate) % Tok(1) = 0
          /\ AllowN(n))
         => (ret'.ok <=>
               drain.got + n <= Min(((now - drain.at) * rate) \div Tok(1),
                                    maxTokens))]_vars

\* C3 (as stated): AllowN(n) with n greater than the burst returns false,
\* whatever the rate.
C3_OverBurstRefusedAnyRate ==
    [][\A n \in Ns : (n > maxTokens /\ AllowN(n)) => ~ret'.ok]_vars

\* C3 (amended): under a finite rate, AllowN(n) with n greater than the
\* burst returns false, however full the bucket and however short the wait
\* would be.
C3_OverBurstRefused ==
    [][\A n \in Ns :
         (n > maxTokens /\ rate # InfiniteRate /\ AllowN(n)) => ~ret'.ok]_vars

\* C3 witness: a request larger than the burst has been refused under a
\* finite rate although time had passed and the bucket was full.
C3_Witness ==
    /\ ret.op = "AllowN" /\ ~ret.ok
    /\ ret.n > maxTokens /\ maxTokens >= 1
    /\ rate # InfiniteRate
    /\ now > updatedAt
    /\ AvailableTokens = Tok(maxTokens)

\* C4: an Allow or AllowN that returns false leaves tokens, updatedAt,
\* eventAt, rate and maxTokens as they were.
C4_RefusalChangesNothing ==
    [][(ret'.op = "AllowN" /\ ~ret'.ok)
         => UNCHANGED <<tokens, updatedAt, eventAt, rate, maxTokens>>]_vars

\* C4 witness: a request within the burst has been refused at an instant
\* later than the last update, where a commit would have moved updatedAt.
C4_Witness ==
    /\ ret.op = "AllowN" /\ ~ret.ok
    /\ ret.n >= 1 /\ ret.n <= maxTokens
    /\ now > updatedAt

\* C5: under the infinite rate every AllowN(n) returns true, n above the
\* burst included, the reservation's timeToAct is the instant of the call,
\* and tokens, updatedAt and eventAt are left as they were.
C5_InfiniteRateAdmitsAll ==
    [][\A n \in Ns :
         (rate = InfiniteRate /\ AllowN(n))
         => /\ ret'.ok
            /\ reservation(now, n, 0).timeToAct = now
            /\ UNCHANGED ledger]_vars

\* C5 witness: under the infinite rate a request above the burst has been
\* granted at an instant later than the last update.
C5_Witness ==
    /\ ret.op = "AllowN" /\ ret.ok
    /\ rate = InfiniteRate
    /\ ret.n > maxTokens
    /\ now > updatedAt

\* C6: under a finite rate, Wait(n) with n greater than the burst returns
\* the "exceeds burst" error, does not call Sleep and leaves the ledger as
\* it was.
C6_WaitOverBurstFails ==
    [][\A n \in Ns :
         (n > maxTokens /\ rate # InfiniteRate /\ Wait(n))
         => /\ ret'.err = "exceeds burst"
            /\ ~ret'.slept
            /\ now' = now
            /\ UNCHANGED ledger]_vars

\* C6 witness: Wait has returned "exceeds burst" for a request above the
\* burst under a finite rate, at an instant later than the last update.
C6_Witness ==
    /\ ret.op = "Wait" /\ ret.err = "exceeds burst"
    /\ ret.n > maxTokens
    /\ rate # InfiniteRate
    /\ now > updatedAt

\* C7 (as stated): in every reachable state what AvailableTokens() returns
\* is at least zero and at most the burst.
C7_AvailableWithinBounds ==
    0 <= AvailableTokens /\ AvailableTokens <= Tok(maxTokens)

\* C8 (as stated): an AvailableTokens() read returns at most the burst, and
\* at least what the read before it returned when no Allow, AllowN or Wait
\* came between the two, whatever other calls did.
C8_ReadsMonotoneAnyCalls ==
    [][ReadTokens
         => /\ ret'.val <= Tok(maxTokens)
            /\ (lastRead.read => ret'.val >= lastRead.v)]_vars

\* C8 (amended): an AvailableTokens() read returns at most the burst, and at
\* least what the read before it returned when nothing came between the two
\* but clock advances, SetRate/SetRateAt calls stamped with the clock's
\* instant and SetBurst/SetBurstAt calls that do not lower the burst.
C8_ReadsMonotone ==
    [][ReadTokens
         => /\ ret'.val <= Tok(maxTokens)
            /\ ((lastRead.read /\ lastRead.steady) => ret'.val >= lastRead.v)]_vars

\* C8 witness: a read has returned more than the read before it, with only
\* such calls between the two.
C8_Witness ==
    /\ ret.op = "AvailableTokens"
    /\ lastRead.rose
    /\ lastRead.v = ret.val

\* C9: under a finite rate, cancelling a granted reservation at the instant
\* it was taken, with nothing in between, brings the balance projected at
\* that instant back to what it was before the reservation.
C9_ReserveCancelRoundTrip ==
    [][(/\ ret.op = "reserve" /\ ret.ok
        /\ rate # InfiniteRate /\ rate > 0
        /\ ret.n <= maxTokens
        /\ Cancel)
         => AvailableTokens' = ret.val]_vars

\* C9 witness: a reservation of at least one token that had to wait (it left
\* a debt) has been cancelled at the instant it was taken.
C9_Witness ==
    /\ ret.op = "CancelAt" /\ ret.ok
    /\ res.ok /\ res.tokens >= 1
    /\ res.rate > 0 /\ rate = res.rate
    /\ res.timeToAct > now

\* C10 (as stated): SetBurstAt(t, B') stores min(B', P), where P is the
\* balance projected at t under the burst in force before the call.
C10_SetBurstProjectsUnderOldBurst ==
    [][\A t \in Stamps, b \in Bursts :
         SetBurstAt(t, b) => tokens' = Min(Tok(b), updateTokens(t))]_vars

\* C11: after SetRateAt(t, R') with t at or after updatedAt, the balance
\* projected at every instant t2 >= t is min(burst, P + R' * (t2 - t)),
\* where P is the balance projected at t before the call (under the old
\* rate); the burst and eventAt are left as they were.
C11_SetRateSplitsAccrual ==
    [][\A t \in Stamps, r \in Rates :
         (t >= updatedAt /\ SetRateAt(t, r))
         => /\ \A t2 \in t..MaxTime :
                 updateTokens(t2)'
                   = Min(Tok(maxTokens), updateTokens(t) + r * (t2 - t))
            /\ UNCHANGED <<maxTokens, eventAt>>]_vars

\* C11 witness: SetRateAt has been called with a timestamp between the last
\* update and the clock's instant, and has folded into the balance a part
\* of a token accrued before that timestamp; time has passed since.
C11_Witness ==
    /\ ret.op = "SetRateAt"
    /\ updatedAt > 0 /\ now > updatedAt
    /\ tokens > 0 /\ tokens < Tok(maxTokens)
    /\ rate # InfiniteRate

\* C16 (as stated): no step sets updatedAt to an instant before its
\* previous value.
C16_UpdatedAtMonotone ==
    [][updatedAt' >= updatedAt]_vars

\* C13 (as stated): under a finite rate and with n <= burst, Wait(n) run
\* with nothing else going on returns success, sleeps for the whole time
\* the deficit takes to refill at rate R and for no longer (the clock has
\* then reached t + deficit/R), and does not sleep when there is no deficit.
C13_WaitSleepsOutDeficit ==
    [][\A n \in Ns :
         (n <= maxTokens /\ rate # InfiniteRate /\ Wait(n))
         => LET deficit == IF Tok(n) > updateTokens(now)
                           THEN Tok(n) - updateTokens(now) ELSE 0
            IN /\ ret'.ok /\ ret'.err = "nil"
               /\ ret'.slept <=> deficit > 0
               /\ (now' - now) * rate >= deficit
               /\ (now' - now - 1) * rate < deficit \/ now' = now]_vars

\* C17 (as stated): once a reservation has been committed, eventAt is at or
\* after updatedAt in every state that follows.
C17_EventAtNotBeforeUpdatedAt ==
    (res.ok /\ res.rate > 0) => eventAt >= updatedAt

\* C18 (as stated): CancelAt(t) on a granted reservation of n tokens raises
\* the balance projected at t by at most n, whatever happened since the
\* reservation was committed.
C18_CancelRestoresAtMostN ==
    [][\A t \in Stamps :
         (res.ok /\ CancelAt(t))
         => updateTokens(t)' - updateTokens(t) <= Tok(res.tokens)]_vars

\* C19: CancelAt(t) leaves tokens, updatedAt and eventAt as they were when
\* the reservation was not granted, when it holds zero tokens, when its
\* timeToAct is before t, when the limiter's rate is the infinite rate, or
\* when the restore amount it computes is not positive.
C19_CancelNoOp ==
    [][\A t \in Stamps :
         (/\ CancelAt(t)
          /\ \/ ~res.ok
             \/ res.tokens = 0
             \/ res.timeToAct < t
             \/ rate = InfiniteRate
             \/ restoreOf(res) <= 0)
         => UNCHANGED ledger]_vars

\* C19 witness: a granted reservation of at least one token that is still
\* ahead of the clock and would get all its tokens back has been cancelled
\* while the limiter's rate was the infinite rate, and it left a debt that
\* is still there.
C19_Witness ==
    /\ ret.op = "CancelAt"
    /\ rate = InfiniteRate
    /\ res.ok /\ res.tokens >= 1 /\ res.rate > 0
    /\ res.timeToAct >= now
    /\ restoreOf(res) > 0
    /\ tokens < 0

\* C20 (as stated): cancelling a reservation again right after it has been
\* cancelled does not raise the balance.
C20_SecondCancelAddsNothing ==
    [][(ret.op = "CancelAt" /\ res.ok /\ Cancel)
         => AvailableTokens' <= AvailableTokens]_vars

\* C12 (as stated): a Wait(n) that has passed the burst check is never
\* refused its reservation (it never returns "cannot reserve"), whatever
\* other callers do between the check and the reservation.
C12_WaitNeverCannotReserve ==
    [][\A p \in Callers :
         WaitRBody(p)
         => reservation(loc[p].t, loc[p].n, InfiniteDuration).ok]_vars

\* C14: a caller that reads or writes tokens, updatedAt, eventAt, rate or
\* maxTokens holds the lock, these fields only change in a step of the
\* caller that holds the lock, the lock is held by no caller that is
\* outside these reads and writes, and a caller that goes to sleep in the
\* clock's Sleep does not hold the lock.
C14_LockDiscipline ==
    [][/\ \A p \in Callers : pc[p] \in BodyPcs <=> mu = p
       /\ (<<tokens, updatedAt, eventAt, rate, maxTokens>>'
             # <<tokens, updatedAt, eventAt, rate, maxTokens>>)
          => (mu \in Callers /\ pc[mu] \in BodyPcs)
       /\ \A p \in Callers : pc'[p] = "sleeping" => mu' # p]_vars

\* C14 witness: while one caller's Wait is asleep, with its Sleep not yet
\* over, another caller has acquired the lock for its reservation.
C14_Witness ==
    \E p, q \in Callers :
        /\ pc[p] = "sleeping" /\ loc[p].wake > now
        /\ pc[q] = "w_rbody" /\ mu = q

\* C15 (as stated, for the window of a single instant and a rate of at most
\* one token per tick): under a constant rate and burst, the concurrent
\* AllowN calls that read the clock and take effect while it stands at one
\* instant are granted no more than burst tokens between them.
C15_GrantsWithinBurstPerInstant ==
    rate = 1 => grantedNow <= maxTokens

====
